---------------------------- MODULE Spec2Model ----------------------------
(***************************************************************************)
(* A model of the wid-backend HTTP service (src/unnamed/part_000, the      *)
(* profile-scoped server with its schema): the answers and                 *)
(* answer_embeddings tables, the connection pool, and the request          *)
(* handlers of the retrieval-augmented chat pipeline.                      *)
(*                                                                         *)
(* A request is a process in a slot of `req`.  Every handler is cut into   *)
(* steps at the awaits that touch the shared store (one SQL statement per  *)
(* step); a call to the embedding provider or to the generative backend    *)
(* touches no shared state and is folded into the step of the statement    *)
(* that follows it.  The outcome of every external call (provider,         *)
(* backend, SQL statement) is an input of the step, drawn with \E.         *)
(* The step that sends a response frees the slot and leaves the response   *)
(* in `resp`, where it stays until the next step of any request.           *)
(*                                                                         *)
(* Strings are sequences of pieces: a piece is a one-character string or   *)
(* a fixed literal of the source (the disclosure sentence, a template).    *)
(***************************************************************************)
EXTENDS Integers, Sequences, FiniteSets, TLC

(***************************************************************************)
(* Bounds of the model.                                                    *)
(***************************************************************************)
MaxAnswers == 2    \* answer rows ever inserted (the BIGSERIAL stops here)
MaxClock == 2      \* statements that store now() in table answers
MaxCand == 6       \* answers of a loaded store, with every choice of vectors
MaxTwice == 3      \* answers of a store on which retrievals run in succession
MaxBacklog == 3    \* answers without embedding, with every choice of failing ones
MaxDim == 2        \* length of the vectors handed to cosineSim
MaxAbs == 1        \* absolute value of their components

(***************************************************************************)
(* Program constants.                                                      *)
(***************************************************************************)
PoolLimit == 200   \* chat: LIMIT 200 candidates
TopK == 5          \* chat: scored.slice(0, 5)
ListLimit == 100   \* GET /answers: LIMIT 100
FallbackLimit == 3 \* chat fallback: LIMIT 3
ReindexLimit == 100 \* POST /reindex: LIMIT 100

\* r.score > 0.1, as a score (see cosineSim): 1 / sqrt(100).
MinScore == [n |-> 1, d2 |-> 100]

(***************************************************************************)
(* Strings.                                                                *)
(***************************************************************************)
NL == "<nl>"
SP == " "
Disclosure == <<"AI reconstruction based on your recorded words.">>
NotSureText == <<"I'm not sure I captured this while I was alive.">>
IsSpace(c) == c \in {SP, NL}

EndsWith(s, suf) ==
  /\ Len(s) >= Len(suf)
  /\ SubSeq(s, Len(s) - Len(suf) + 1, Len(s)) = suf

Contains(s, sub) ==
  \E i \in 1..(Len(s) - Len(sub) + 1) : SubSeq(s, i, i + Len(sub) - 1) = sub

RECURSIVE TrimStart(_)
TrimStart(s) ==
  IF s # <<>> /\ IsSpace(Head(s)) THEN TrimStart(Tail(s)) ELSE s

RECURSIVE TrimEnd(_)
TrimEnd(s) ==
  IF s # <<>> /\ IsSpace(s[Len(s)]) THEN TrimEnd(SubSeq(s, 1, Len(s) - 1)) ELSE s

\* String.prototype.trim
Trim(s) == TrimEnd(TrimStart(s))

(***************************************************************************)
(* Vectors and the similarity score.  A score is the real number           *)
(* n / sqrt(d2), kept exactly as the pair (n, d2) with d2 >= 1.            *)
(***************************************************************************)
Min(a, b) == IF a <= b THEN a ELSE b

RECURSIVE SumTo(_, _)
\* f[1] + ... + f[k]
SumTo(f, k) == IF k = 0 THEN 0 ELSE SumTo(f, k - 1) + f[k]

\* A variant that divides by the first vector's norm alone.
cosineSim_onesided(a, b) ==
  LET len == Min(Len(a), Len(b))
      dot == SumTo([i \in 1..len |-> a[i] * b[i]], len)
      na == SumTo([i \in 1..len |-> a[i] * a[i]], len)
  IN  [n |-> dot, d2 |-> IF na * na = 0 THEN 1 ELSE na * na]

\* The score n / sqrt(d2) of two vectors of integers, kept exact;
\* denom = Math.sqrt(na) * Math.sqrt(nb) || 1.
cosineSim(a, b) ==
  LET len == Min(Len(a), Len(b))
      dot == SumTo([i \in 1..len |-> a[i] * b[i]], len)
      na == SumTo([i \in 1..len |-> a[i] * a[i]], len)
      nb == SumTo([i \in 1..len |-> b[i] * b[i]], len)
  IN  [n |-> dot, d2 |-> IF na * nb = 0 THEN 1 ELSE na * nb]

\* s > t as real numbers
ScoreGT(s, t) ==
  CASE s.n >= 0 /\ t.n >= 0 -> s.n * s.n * t.d2 > t.n * t.n * s.d2
    [] s.n >= 0 /\ t.n < 0  -> TRUE
    [] s.n < 0 /\ t.n >= 0  -> FALSE
    [] OTHER                -> s.n * s.n * t.d2 < t.n * t.n * s.d2

ScoreEQ(s, t) == ~ScoreGT(s, t) /\ ~ScoreGT(t, s)


(***************************************************************************)
(* Inputs of the requests and outcomes of the external calls.              *)
(***************************************************************************)
\* X-Profile-Id as sent: absent, or the text of a number.
RawHeaders == {"none", "1", "2", "3"}
Texts == {<<"A">>, <<"b">>}
Questions == {<<"q">>}
\* The messages sent to /chat: none, one word, a leading blank, two words.
Messages == {<<>>, <<"a">>, <<SP, "a">>, <<"q", SP, "a">>}
\* The vectors the embedding provider may answer with.
Vectors == {<<1, 0>>, <<0, 1>>, <<3, 4>>}
\* embedText: the provider's vector, a thrown error (no key, rate limit,
\* network), or a response whose data[0].embedding is undefined.
EmbedOutcomes ==
  [kind : {"ok"}, vec : Vectors] \cup [kind : {"throw", "undefined"}, vec : {<<>>}]

\* The text of choices[0].message.content when the backend answers with one.
LLMTexts ==
  {<<>>, <<SP>>, <<"h", "i">>, <<SP, "h", "i", NL, NL>> \o Disclosure \o <<NL>>}
\* openai.chat.completions.create: a thrown error, a response without
\* choices[0].message.content, or a response with it.
LLMOutcomes ==
  [kind : {"throw", "malformed"}, text : {<<>>}] \cup [kind : {"text"}, text : LLMTexts]

\* Number(raw): int says whether the result is an integer, val is its value.
HeaderNumber(raw) ==
  CASE raw = "0" -> [int |-> TRUE, val |-> 0]
    [] raw = "1" -> [int |-> TRUE, val |-> 1]
    [] raw = "2" -> [int |-> TRUE, val |-> 2]
    [] raw = "3" -> [int |-> TRUE, val |-> 3]
    [] OTHER     -> [int |-> FALSE, val |-> 0]

(***************************************************************************)
(* State.                                                                  *)
(***************************************************************************)
VARIABLES
  hasOpenAI,     \* OPENAI_API_KEY is set: openai is not null
  int8AsString,  \* the driver hands BIGINT columns to the code as strings
  profiles,      \* ids of the rows of table profiles
  answers,       \* table answers: id -> row
  embeddings,    \* table answer_embeddings: answer_id -> row
  nextId,        \* the next value of answers.id (BIGSERIAL)
  clock,         \* now()
  checkedOut,    \* connections taken from the pool and not released
  req,           \* the requests in flight: slot -> request
  resp           \* the response the last step sent, if it sent one

vars ==
  <<hasOpenAI, int8AsString, profiles, answers, embeddings, nextId, clock,
    checkedOut, req, resp>>

env == <<hasOpenAI, int8AsString, profiles>>
store == <<answers, embeddings, nextId, clock>>

\* A free slot; as a response: none.  Beside the request's inputs, locals
\* and response, it records what the request did: calls counts its calls of
\* embedText that reached the provider, writes its statements that changed
\* a table, emb is how its best-effort embedding ended, perr is what the
\* try block of /chat threw, qemb is the embedding of the chat message,
\* okIds and failIds are the answers a reindex run has indexed and failed on.
Idle ==
  [op |-> "idle", pc |-> "idle", hdr |-> "none", pid |-> 0, id |-> 0,
   question |-> <<>>, text |-> <<>>, msg |-> <<>>,
   status |-> 0, err |-> "", answer |-> <<>>, items |-> <<>>, cites |-> <<>>,
   path |-> "", perr |-> "", qemb |-> <<>>, count |-> 0, batch |-> 0,
   ok |-> 0, fail |-> 0, okIds |-> {}, failIds |-> {}, hint |-> "", emb |-> "",
   calls |-> 0, gen |-> 0, term |-> <<>>, writes |-> 0]

\* A request as it arrives.
NewReq(op, hdr, id, question, text, msg) ==
  [Idle EXCEPT !.op = op, !.pc = "begin", !.hdr = hdr, !.id = id,
               !.question = question, !.text = text, !.msg = msg]

\* res.status(status).json({ error: err })
Fail(q, status, err) == [q EXCEPT !.pc = "done", !.status = status, !.err = err]

\* res.json(...)
Ok(q) == [q EXCEPT !.pc = "done", !.status = 200]

\* The request in slot r goes on as q.
Continue(r, q) ==
  /\ req' = [req EXCEPT ![r] = q]
  /\ resp' = Idle
  /\ UNCHANGED checkedOut

\* A variant whose finally block does not release the client.
Finish_leaking(r, q) ==
  /\ req' = [req EXCEPT ![r] = Idle]
  /\ resp' = q
  /\ UNCHANGED checkedOut

\* The request in slot r ends with response q; finally { client.release() }.
Finish(r, q) ==
  /\ req' = [req EXCEPT ![r] = Idle]
  /\ resp' = q
  /\ checkedOut' = checkedOut - 1

\* The request in slot r ends with response q before pool.connect().
Reject(r, q) ==
  /\ req' = [req EXCEPT ![r] = Idle]
  /\ resp' = q
  /\ UNCHANGED checkedOut

\* const client = await pool.connect()
Connect(r, q) ==
  /\ req' = [req EXCEPT ![r] = q]
  /\ resp' = Idle
  /\ checkedOut' = checkedOut + 1

\* The statements a request may still run that read now().
Writes(q) ==
  IF q.op \in {"save", "put"} /\ q.pc \in {"auth", "insert", "check", "write"}
  THEN 1 ELSE 0

\* The rows a request may still insert into answers.
Inserts(q) == IF q.op = "save" /\ q.pc \in {"auth", "insert"} THEN 1 ELSE 0

\* The slots of the requests in flight.
Slots == DOMAIN req

RECURSIVE SumSlots(_, _)
SumSlots(F(_), k) == IF k = 0 THEN 0 ELSE SumSlots(F, k - 1) + F(req[k])

\* The bounds of the model leave room for a request that writes w timestamps
\* and inserts i rows.
Room(w, i) ==
  /\ clock + SumSlots(Writes, Len(req)) + w <= MaxClock
  /\ (nextId - 1) + SumSlots(Inserts, Len(req)) + i <= MaxAnswers

\* The last response has been taken note of: the next step may run.
Quiet == resp = Idle

\* Slots are interchangeable: a request takes the lowest free one.
Free(r) ==
  /\ Quiet
  /\ req[r].pc = "idle"
  /\ \A q \in Slots : q < r => req[q].pc # "idle"

\* The request in slot r runs operation op and is at step pc.
At(r, op, pc) == Quiet /\ req[r].op = op /\ req[r].pc = pc

(***************************************************************************)
(* Helpers of the handlers.                                                *)
(***************************************************************************)
\* getProfileId: throws 401 unless the header is a positive integer.
getProfileId(hdr) ==
  LET id == HeaderNumber(hdr)
  IN  IF ~id.int \/ id.val <= 0
      THEN [ok |-> FALSE, status |-> 401, err |-> "missing profile id", pid |-> 0]
      ELSE [ok |-> TRUE, status |-> 0, err |-> "", pid |-> id.val]

\* A variant that takes every positive id for a profile's.
ensureProfileExists_unchecked(id, dbFail) ==
  IF dbFail
  THEN [ok |-> FALSE, status |-> 500, err |-> "pg_error", pid |-> 0]
  ELSE [ok |-> TRUE, status |-> 0, err |-> "", pid |-> id]

\* ensureProfileExists(client, id): the SELECT may fail (dbFail).
ensureProfileExists(id, dbFail) ==
  IF dbFail
  THEN [ok |-> FALSE, status |-> 500, err |-> "pg_error", pid |-> 0]
  ELSE IF id \notin profiles
  THEN [ok |-> FALSE, status |-> 401, err |-> "invalid profile id", pid |-> 0]
  ELSE [ok |-> TRUE, status |-> 0, err |-> "", pid |-> id]

\* ensureProfileExists(client, getProfileId(req)), followed by the statement
\* of the step: dbFail says that one of the two statements fails.
Authenticate(hdr, dbFail) ==
  LET g == getProfileId(hdr)
  IN  IF g.ok THEN ensureProfileExists(g.pid, dbFail) ELSE g

\* INSERT INTO answer_embeddings ... ON CONFLICT (answer_id) DO UPDATE.  The
\* row's created_at and updated_at, which no handler reads, are left out.
UpsertEmbedding(emb, id, content, vec) ==
  IF id \in DOMAIN emb
  THEN [emb EXCEPT ![id] = [content |-> content, embedding |-> vec]]
  ELSE emb @@ (id :> [content |-> content, embedding |-> vec])

\* A variant of a table answer_embeddings without REFERENCES answers(id).
EmbedResult_unreferenced(id, out, upFail) ==
  CASE ~hasOpenAI         -> "none"
    [] out.kind = "throw" -> "threw"
    [] out.kind = "undefined" \/ upFail -> "rejected"
    [] OTHER              -> "ok"

\* How the best-effort embedding of answer `id` ends: "none" without a
\* provider (if (openai) is false), "threw" when embedText throws, "rejected"
\* when the upsert fails: on a lost connection (upFail), on a NULL embedding
\* (JSON.stringify(undefined)), on the foreign key when the answer row is
\* gone; "ok" when the upsert is applied.
EmbedResult(id, out, upFail) ==
  CASE ~hasOpenAI         -> "none"
    [] out.kind = "throw" -> "threw"
    [] out.kind = "undefined" \/ upFail \/ id \notin DOMAIN answers -> "rejected"
    [] OTHER              -> "ok"

\* ORDER BY created_at DESC: the ids of S, the latest first.  No two rows
\* of the model have the same created_at.
OrderDesc(tbl, S) ==
  LET Later(a, b) == tbl[a].created_at > tbl[b].created_at
      Selected(a) == a \in S
  IN  SortSeq(SelectSeq([a \in 1..(nextId - 1) |-> a], Selected), Later)

\* ORDER BY created_at ASC: the ids of S, the earliest first.
OrderAsc(tbl, S) ==
  LET Earlier(a, b) == tbl[a].created_at < tbl[b].created_at
      Selected(a) == a \in S
  IN  SortSeq(SelectSeq([a \in 1..(nextId - 1) |-> a], Selected), Earlier)

\* The elements of a sequence.
Range(s) == {s[i] : i \in DOMAIN s}

\* LIMIT k
Limit(s, k) == SubSeq(s, 1, Min(k, Len(s)))

(***************************************************************************)
(* POST /save-answer (and its aliases): saveAnswerCore.                    *)
(***************************************************************************)
\* A save arrives with a header of hdrs, a question of questions and a text
\* of texts.
SaveBeginWith(r, hdrs, questions, texts) ==
  \E hdr \in hdrs, question \in questions, text \in texts :
    LET q == NewReq("save", hdr, 0, question, text, <<>>)
    IN  /\ Free(r)
        /\ Room(1, 1)
        /\ IF question = <<>> \/ text = <<>>
           THEN Reject(r, Fail(q, 400, "question and text are required"))
           ELSE Connect(r, [q EXCEPT !.pc = "auth"])
        /\ UNCHANGED <<env, store>>

SaveBegin(r) == SaveBeginWith(r, RawHeaders, Questions \cup {<<>>}, Texts \cup {<<>>})

\* ensureProfileExists(client, getProfileId(req)), and again in saveAnswerCore
SaveAuthWith(r, dbFails) ==
  \E dbFail \in dbFails :
    LET q == req[r]
        a == Authenticate(q.hdr, dbFail)
    IN  /\ At(r, "save", "auth")
        /\ IF a.ok
           THEN Continue(r, [q EXCEPT !.pc = "insert", !.pid = a.pid])
           ELSE Finish(r, Fail(q, a.status, a.err))
        /\ UNCHANGED <<env, store>>

SaveAuth(r) == SaveAuthWith(r, BOOLEAN)

\* INSERT INTO answers ... RETURNING id, created_at
SaveInsertWith(r, dbFails) ==
  \E dbFail \in dbFails :
    LET q == req[r]
    IN  /\ At(r, "save", "insert")
        /\ IF dbFail
           THEN /\ Finish(r, Fail(q, 500, "pg_error"))
                /\ UNCHANGED store
           ELSE /\ answers' = answers @@
                     (nextId :> [profile_id |-> q.pid, question |-> q.question,
                                 answer_text |-> q.text, created_at |-> clock + 1,
                                 updated_at |-> clock + 1])
                /\ nextId' = nextId + 1
                /\ clock' = clock + 1
                /\ Continue(r, [q EXCEPT !.pc = "embed", !.id = nextId, !.writes = 1])
                /\ UNCHANGED embeddings
        /\ UNCHANGED env

SaveInsert(r) == SaveInsertWith(r, BOOLEAN)

\* A variant without the inner try/catch: a failed embedding fails the save.
SaveResponse_uncaught(q, res) ==
  IF res \in {"threw", "rejected"}
  THEN [Fail(q, 500, "embedding_error") EXCEPT !.emb = res, !.calls = 1]
  ELSE [Ok(q) EXCEPT !.emb = res, !.calls = IF hasOpenAI THEN 1 ELSE 0,
                     !.writes = q.writes + IF res = "ok" THEN 1 ELSE 0]

\* catch (e2) { console.error(...) }, then return { id, created_at }: the
\* response of a save whose best-effort embedding ended as res.
SaveResponse(q, res) ==
  [Ok(q) EXCEPT !.emb = res, !.calls = IF hasOpenAI THEN 1 ELSE 0,
                !.writes = q.writes + IF res = "ok" THEN 1 ELSE 0]

\* try { if (openai) { embedText; upsert } } catch { log }; return { id, created_at }
SaveEmbedWith(r, outs, upFails) ==
  \E out \in outs, upFail \in upFails :
    LET q == req[r]
        res == EmbedResult(q.id, out, upFail)
    IN  /\ At(r, "save", "embed")
        /\ embeddings' = IF res = "ok"
                         THEN UpsertEmbedding(embeddings, q.id, q.text, out.vec)
                         ELSE embeddings
        /\ Finish(r, SaveResponse(q, res))
        /\ UNCHANGED <<env, answers, nextId, clock>>

SaveEmbed(r) == SaveEmbedWith(r, EmbedOutcomes, BOOLEAN)

(***************************************************************************)
(* GET /answers, GET /answers/count, GET /export/json, GET /export/csv.    *)
(***************************************************************************)
\* The ids of the answers of profile pid.
OwnedBy(pid) == {a \in DOMAIN answers : answers[a].profile_id = pid}

\* A variant of the list's query without its LIMIT.
ListRows_unlimited(pid) ==
  LET ids == OrderDesc(answers, OwnedBy(pid))
  IN  [i \in 1..Len(ids) |->
         [id |-> ids[i], question |-> answers[ids[i]].question,
          answer_text |-> answers[ids[i]].answer_text,
          created_at |-> answers[ids[i]].created_at,
          updated_at |-> answers[ids[i]].updated_at]]

\* SELECT id, question, answer_text, created_at, updated_at FROM answers
\*  WHERE profile_id = $1 ORDER BY created_at DESC LIMIT 100
ListRows(pid) ==
  LET ids == Limit(OrderDesc(answers, OwnedBy(pid)), ListLimit)
  IN  [i \in 1..Len(ids) |->
         [id |-> ids[i], question |-> answers[ids[i]].question,
          answer_text |-> answers[ids[i]].answer_text,
          created_at |-> answers[ids[i]].created_at,
          updated_at |-> answers[ids[i]].updated_at]]

\* SELECT question, answer_text, created_at FROM answers
\*  WHERE profile_id = $1 ORDER BY created_at ASC
ExportRows(pid) ==
  LET ids == OrderAsc(answers, OwnedBy(pid))
  IN  [i \in 1..Len(ids) |->
         [question |-> answers[ids[i]].question,
          answer_text |-> answers[ids[i]].answer_text,
          created_at |-> answers[ids[i]].created_at]]

\* A read of kind op \in ops arrives with a header of hdrs.
ReadBeginWith(r, ops, hdrs) ==
  \E op \in ops, hdr \in hdrs :
    /\ Free(r)
    /\ Connect(r, [NewReq(op, hdr, 0, <<>>, <<>>, <<>>) EXCEPT !.pc = "query"])
    /\ UNCHANGED <<env, store>>

ReadBegin(r) == ReadBeginWith(r, {"list", "count", "export"}, RawHeaders)

ListQuery(r) ==
  \E dbFail \in BOOLEAN :
    LET q == req[r]
        a == Authenticate(q.hdr, dbFail)
    IN  /\ At(r, "list", "query")
        /\ IF ~a.ok THEN Finish(r, Fail(q, a.status, a.err))
           ELSE Finish(r, [Ok(q) EXCEPT !.pid = a.pid, !.items = ListRows(a.pid)])
        /\ UNCHANGED <<env, store>>

CountQuery(r) ==
  \E dbFail \in BOOLEAN :
    LET q == req[r]
        a == Authenticate(q.hdr, dbFail)
    IN  /\ At(r, "count", "query")
        /\ IF ~a.ok THEN Finish(r, Fail(q, a.status, a.err))
           ELSE Finish(r, [Ok(q) EXCEPT !.pid = a.pid,
                                        !.count = Cardinality(OwnedBy(a.pid))])
        /\ UNCHANGED <<env, store>>

\* Both export routes; the rendering of the rows (JSON.stringify, the CSV
\* escaping) is not modelled.
ExportQuery(r) ==
  \E dbFail \in BOOLEAN :
    LET q == req[r]
        a == Authenticate(q.hdr, dbFail)
    IN  /\ At(r, "export", "query")
        /\ IF ~a.ok THEN Finish(r, Fail(q, a.status, a.err))
           ELSE Finish(r, [Ok(q) EXCEPT !.pid = a.pid, !.items = ExportRows(a.pid)])
        /\ UNCHANGED <<env, store>>

(***************************************************************************)
(* PUT /answers/:id and DELETE /answers/:id.                               *)
(***************************************************************************)
\* A variant without the comparison of the owner.
OwnerMismatch_absent(owner, pid) == FALSE

\* owner !== pid.  pid is a number; owner is the profile_id column, BIGINT,
\* which node-postgres hands over as a string unless an int8 type parser is
\* set, and a string is never === a number.  The source sets no parser; the
\* driver's set-up is outside src/, so both decodings are modelled.
OwnerMismatch(owner, pid) == int8AsString \/ owner # pid

\* The row of the table without the one of id.
Remove(tbl, id) == [a \in DOMAIN tbl \ {id} |-> tbl[a]]

\* The outcome of the checks both handlers run before they write:
\* ensureProfileExists(client, getProfileId(req)), then the owner's SELECT.
OwnerCheck(q, dbFail) ==
  LET a == Authenticate(q.hdr, dbFail)
  IN  IF ~a.ok THEN Fail(q, a.status, a.err)
      ELSE IF q.id \notin DOMAIN answers THEN Fail(q, 404, "not_found")
      ELSE IF OwnerMismatch(answers[q.id].profile_id, a.pid)
      THEN Fail([q EXCEPT !.pid = a.pid], 403, "forbidden")
      ELSE [q EXCEPT !.pid = a.pid, !.pc = "write"]

\* An update of an answer of ids arrives with a header of hdrs and a text
\* of texts.
PutBeginWith(r, hdrs, ids, texts) ==
  \E hdr \in hdrs, id \in ids, text \in texts :
    LET q == NewReq("put", hdr, id, <<>>, text, <<>>)
    IN  /\ Free(r)
        /\ Room(1, 0)
        /\ IF id <= 0 THEN Reject(r, Fail(q, 400, "invalid id"))
           ELSE IF text = <<>> \/ Trim(text) = <<>>
           THEN Reject(r, Fail(q, 400, "text required"))
           ELSE Connect(r, [q EXCEPT !.pc = "check"])
        /\ UNCHANGED <<env, store>>

PutBegin(r) == PutBeginWith(r, RawHeaders, 0..MaxAnswers, Texts \cup {<<>>, <<SP>>})

\* The checks of an update, the connection lost (dbFail) or not.
PutCheckWith(r, dbFails) ==
  \E dbFail \in dbFails :
    LET q == req[r]
        c == OwnerCheck(q, dbFail)
    IN  /\ At(r, "put", "check")
        /\ IF c.pc = "done" THEN Finish(r, c) ELSE Continue(r, c)
        /\ UNCHANGED <<env, store>>

PutCheck(r) == PutCheckWith(r, BOOLEAN)

\* A variant of the UPDATE without its WHERE clause.
PutUpdateWith_everywhere(r, dbFails) ==
  \E dbFail \in dbFails :
    LET q == req[r]
    IN  /\ At(r, "put", "write")
        /\ IF dbFail
           THEN /\ Finish(r, Fail(q, 500, "pg_error"))
                /\ UNCHANGED store
           ELSE IF q.id \in DOMAIN answers
           THEN /\ answers' = [a \in DOMAIN answers |->
                             [answers[a] EXCEPT !.answer_text = q.text,
                                                !.updated_at = clock + 1]]
                /\ clock' = clock + 1
                /\ Continue(r, [q EXCEPT !.pc = "embed", !.writes = 1])
                /\ UNCHANGED <<embeddings, nextId>>
           ELSE /\ Continue(r, [q EXCEPT !.pc = "embed"])
                /\ UNCHANGED store
        /\ UNCHANGED env

\* UPDATE answers SET answer_text = $1, updated_at = now() WHERE id = $2
PutUpdateWith(r, dbFails) ==
  \E dbFail \in dbFails :
    LET q == req[r]
    IN  /\ At(r, "put", "write")
        /\ IF dbFail
           THEN /\ Finish(r, Fail(q, 500, "pg_error"))
                /\ UNCHANGED store
           ELSE IF q.id \in DOMAIN answers
           THEN /\ answers' = [answers EXCEPT ![q.id].answer_text = q.text,
                                              ![q.id].updated_at = clock + 1]
                /\ clock' = clock + 1
                /\ Continue(r, [q EXCEPT !.pc = "embed", !.writes = 1])
                /\ UNCHANGED <<embeddings, nextId>>
           ELSE /\ Continue(r, [q EXCEPT !.pc = "embed"])
                /\ UNCHANGED store
        /\ UNCHANGED env

PutUpdate(r) == PutUpdateWith(r, BOOLEAN)

\* try { if (openai) { embedText; upsert } } catch { log }; res.json({ ok: true, id })
PutEmbedWith(r, outs, upFails) ==
  \E out \in outs, upFail \in upFails :
    LET q == req[r]
        res == EmbedResult(q.id, out, upFail)
    IN  /\ At(r, "put", "embed")
        /\ embeddings' = IF res = "ok"
                         THEN UpsertEmbedding(embeddings, q.id, q.text, out.vec)
                         ELSE embeddings
        /\ Finish(r, [Ok(q) EXCEPT !.emb = res, !.calls = IF hasOpenAI THEN 1 ELSE 0,
                                   !.writes = q.writes + IF res = "ok" THEN 1 ELSE 0])
        /\ UNCHANGED <<env, answers, nextId, clock>>

PutEmbed(r) == PutEmbedWith(r, EmbedOutcomes, BOOLEAN)

\* A deletion of an answer of ids arrives with a header of hdrs.
DeleteBeginWith(r, hdrs, ids) ==
  \E hdr \in hdrs, id \in ids :
    LET q == NewReq("delete", hdr, id, <<>>, <<>>, <<>>)
    IN  /\ Free(r)
        /\ IF id <= 0 THEN Reject(r, Fail(q, 400, "invalid id"))
           ELSE Connect(r, [q EXCEPT !.pc = "check"])
        /\ UNCHANGED <<env, store>>

DeleteBegin(r) == DeleteBeginWith(r, RawHeaders, 0..MaxAnswers)

DeleteCheck(r) ==
  \E dbFail \in BOOLEAN :
    LET q == req[r]
        c == OwnerCheck(q, dbFail)
    IN  /\ At(r, "delete", "check")
        /\ IF c.pc = "done" THEN Finish(r, c) ELSE Continue(r, c)
        /\ UNCHANGED <<env, store>>

\* DELETE FROM answers WHERE id = $1; answer_embeddings: ON DELETE CASCADE
DeleteRow(r) ==
  \E dbFail \in BOOLEAN :
    LET q == req[r]
    IN  /\ At(r, "delete", "write")
        /\ IF dbFail
           THEN /\ Finish(r, Fail(q, 500, "pg_error"))
                /\ UNCHANGED store
           ELSE /\ answers' = Remove(answers, q.id)
                /\ embeddings' = Remove(embeddings, q.id)
                /\ Finish(r, [Ok(q) EXCEPT !.writes = IF q.id \in DOMAIN answers THEN 1 ELSE 0])
                /\ UNCHANGED <<nextId, clock>>
        /\ UNCHANGED env

(***************************************************************************)
(* POST /reindex.                                                          *)
(***************************************************************************)
\* A variant that also selects the answers whose embedding is of another
\* text than theirs.
ReindexRows_refreshing(pid) ==
  LET stale == {a \in OwnedBy(pid) \cap DOMAIN embeddings :
                  embeddings[a].content # answers[a].answer_text}
      ids == Limit(OrderAsc(answers, (OwnedBy(pid) \ DOMAIN embeddings) \cup stale),
                   ReindexLimit)
  IN  [i \in 1..Len(ids) |-> [id |-> ids[i], answer_text |-> answers[ids[i]].answer_text]]

\* SELECT a.id, a.answer_text FROM answers a LEFT JOIN answer_embeddings e ...
\*  WHERE a.profile_id = $1 AND e.answer_id IS NULL
\*  ORDER BY a.created_at ASC LIMIT 100
ReindexRows(pid) ==
  LET ids == Limit(OrderAsc(answers, OwnedBy(pid) \ DOMAIN embeddings),
                   ReindexLimit)
  IN  [i \in 1..Len(ids) |-> [id |-> ids[i], answer_text |-> answers[ids[i]].answer_text]]

\* remainingHint
ReindexHint(n) == IF n >= ReindexLimit THEN "run again to index more" ELSE "complete"

\* A variant without the test of the provider before pool.connect().
ReindexBegin_late(r) ==
  \E hdr \in RawHeaders :
    LET q == NewReq("reindex", hdr, 0, <<>>, <<>>, <<>>)
    IN  /\ Free(r)
        /\ Connect(r, [q EXCEPT !.pc = "select"])
        /\ UNCHANGED <<env, store>>

\* A reindex request arrives with a header of hdrs:
\* if (!openai) return res.status(400)...; const client = await pool.connect()
ReindexBeginWith(r, hdrs) ==
  \E hdr \in hdrs :
    LET q == NewReq("reindex", hdr, 0, <<>>, <<>>, <<>>)
    IN  /\ Free(r)
        /\ IF ~hasOpenAI THEN Reject(r, Fail(q, 400, "OPENAI_API_KEY not set"))
           ELSE Connect(r, [q EXCEPT !.pc = "select"])
        /\ UNCHANGED <<env, store>>

ReindexBegin(r) == ReindexBeginWith(r, RawHeaders)

\* ensureProfileExists and the SELECT of the batch, the connection lost
\* (dbFail) or not.
ReindexSelectWith(r, dbFails) ==
  \E dbFail \in dbFails :
    LET q == req[r]
        a == Authenticate(q.hdr, dbFail)
        rows == ReindexRows(a.pid)
    IN  /\ At(r, "reindex", "select")
        /\ IF ~a.ok THEN Finish(r, Fail(q, a.status, a.err))
           ELSE IF rows = <<>>
           THEN Finish(r, [Ok(q) EXCEPT !.pid = a.pid, !.hint = ReindexHint(0)])
           ELSE Continue(r, [q EXCEPT !.pc = "items", !.pid = a.pid, !.items = rows,
                                      !.batch = Len(rows)])
        /\ UNCHANGED <<env, store>>

ReindexSelect(r) == ReindexSelectWith(r, BOOLEAN)

\* A variant whose loop has no try/catch of its own: the first failure
\* ends the run in the handler's catch.
ReindexItem_aborting(r) ==
  \E out \in EmbedOutcomes, upFail \in BOOLEAN :
    LET q == req[r]
        row == Head(q.items)
        applied == EmbedResult(row.id, out, upFail) = "ok"
        q2 == [q EXCEPT !.items = Tail(q.items),
                        !.ok = q.ok + IF applied THEN 1 ELSE 0,
                        !.fail = q.fail + IF applied THEN 0 ELSE 1,
                        !.okIds = IF applied THEN q.okIds \cup {row.id} ELSE q.okIds,
                        !.failIds = IF applied THEN q.failIds ELSE q.failIds \cup {row.id},
                        !.calls = q.calls + 1,
                        !.writes = q.writes + IF applied THEN 1 ELSE 0]
    IN  /\ At(r, "reindex", "items")
        /\ embeddings' = IF applied
                         THEN UpsertEmbedding(embeddings, row.id, row.answer_text, out.vec)
                         ELSE embeddings
        /\ IF ~applied THEN Finish(r, Fail(q2, 500, "embedding_error"))
           ELSE IF q2.items = <<>>
           THEN Finish(r, [Ok(q2) EXCEPT !.hint = ReindexHint(q.batch)])
           ELSE Continue(r, q2)
        /\ UNCHANGED <<env, answers, nextId, clock>>

\* One turn of the loop: embedText(r.answer_text), the upsert, ok++ or fail++;
\* after the last row, the response.  The provider answers the row's text
\* with an outcome of outs[text], the upsert meets a lost connection or not
\* (upFails).
ReindexItemOn(r, outs, upFails) ==
  /\ At(r, "reindex", "items")
  /\ \E out \in outs[Head(req[r].items).answer_text], upFail \in upFails :
       LET q == req[r]
           row == Head(q.items)
           applied == EmbedResult(row.id, out, upFail) = "ok"
           q2 == [q EXCEPT !.items = Tail(q.items),
                           !.ok = q.ok + IF applied THEN 1 ELSE 0,
                           !.fail = q.fail + IF applied THEN 0 ELSE 1,
                           !.okIds = IF applied THEN q.okIds \cup {row.id} ELSE q.okIds,
                           !.failIds = IF applied THEN q.failIds ELSE q.failIds \cup {row.id},
                           !.calls = q.calls + 1,
                           !.writes = q.writes + IF applied THEN 1 ELSE 0]
       IN  /\ embeddings' = IF applied
                            THEN UpsertEmbedding(embeddings, row.id, row.answer_text, out.vec)
                            ELSE embeddings
           /\ IF q2.items = <<>>
              THEN Finish(r, [Ok(q2) EXCEPT !.hint = ReindexHint(q.batch)])
              ELSE Continue(r, q2)
           /\ UNCHANGED <<env, answers, nextId, clock>>

\* The provider may answer any text with any outcome.
AnyOutcome == [text \in Texts |-> EmbedOutcomes]

ReindexItem(r) == ReindexItemOn(r, AnyOutcome, BOOLEAN)

(***************************************************************************)
(* POST /chat.                                                             *)
(***************************************************************************)
\* A variant of the candidate query without its WHERE clause, as the server
\* of one profile had it.
CandidateRows_unscoped(pid) ==
  LET ids == Limit(OrderDesc(answers, DOMAIN answers \cap DOMAIN embeddings), PoolLimit)
  IN  [i \in 1..Len(ids) |->
         [id |-> ids[i], question |-> answers[ids[i]].question,
          answer_text |-> answers[ids[i]].answer_text,
          embedding |-> embeddings[ids[i]].embedding]]

\* The rows of the candidate query:
\* SELECT a.id, a.question, a.answer_text, e.embedding FROM answers a
\*   JOIN answer_embeddings e ON e.answer_id = a.id
\*  WHERE a.profile_id = $1 ORDER BY a.created_at DESC LIMIT 200
CandidateRows(pid) ==
  LET ids == Limit(OrderDesc(answers, OwnedBy(pid) \cap DOMAIN embeddings), PoolLimit)
  IN  [i \in 1..Len(ids) |->
         [id |-> ids[i], question |-> answers[ids[i]].question,
          answer_text |-> answers[ids[i]].answer_text,
          embedding |-> embeddings[ids[i]].embedding]]

\* rows.map(r => ({ ...r, score: cosineSim(qEmb, emb) }))
ScoreRows(qEmb, rows) ==
  [i \in 1..Len(rows) |->
     [id |-> rows[i].id, question |-> rows[i].question,
      answer_text |-> rows[i].answer_text, score |-> cosineSim(qEmb, rows[i].embedding)]]

\* A variant of an unstable sort: rows of the same score change places.
SortByScore_unstable(rows) ==
  LET Before(i, j) ==
        \/ ScoreGT(rows[i].score, rows[j].score)
        \/ ScoreEQ(rows[i].score, rows[j].score) /\ i > j
      order == SortSeq([i \in DOMAIN rows |-> i], Before)
  IN  [k \in DOMAIN rows |-> rows[order[k]]]

\* .sort((x, y) => y.score - x.score): Array.prototype.sort is stable, so a
\* row comes behind the rows of a higher score and behind the rows of its
\* own score that were before it.
SortByScore(rows) ==
  LET Before(i, j) ==
        \/ ScoreGT(rows[i].score, rows[j].score)
        \/ ScoreEQ(rows[i].score, rows[j].score) /\ i < j
      order == SortSeq([i \in DOMAIN rows |-> i], Before)
  IN  [k \in DOMAIN rows |-> rows[order[k]]]

AboveMin(row) == ScoreGT(row.score, MinScore)

\* A variant without the filter: the first 5 whatever their scores.
TopExcerpts_unfiltered(scored) == Limit(SortByScore(scored), TopK)

\* scored.slice(0, 5).filter(r => r.score > 0.1)
TopExcerpts(scored) == SelectSeq(Limit(SortByScore(scored), TopK), AboveMin)

\* top.map((r, i) => ({ idx: i + 1, question: r.question, score: r.score }))
Citations(top) ==
  [i \in 1..Len(top) |-> [idx |-> i, question |-> top[i].question, score |-> top[i].score]]

\* `I'm not sure I captured this while I was alive.\n\n${disclosure}`
NotSureReply == NotSureText \o <<NL, NL>> \o Disclosure

\* completion.choices?.[0]?.message?.content?.trim() || `I'm not sure ...`
ComposedAnswer(llm) ==
  IF llm.kind = "text" /\ Trim(llm.text) # <<>> THEN Trim(llm.text) ELSE NotSureReply

\* A lower-case letter for an upper-case one.
Lower(c) ==
  CASE c = "A" -> "a" [] c = "B" -> "b" [] c = "Q" -> "q" [] OTHER -> c

LowerSeq(s) == [i \in 1..Len(s) |-> Lower(s[i])]

\* text ILIKE '%' || term || '%' (the pieces of the model hold no %, _ or \)
ILike(text, term) == Contains(LowerSeq(text), LowerSeq(term))

\* The index of the first blank of s, Len(s) + 1 when it has none.
RECURSIVE FirstSpace(_, _)
FirstSpace(s, i) ==
  IF i > Len(s) \/ IsSpace(s[i]) THEN i ELSE FirstSpace(s, i + 1)

\* message.split(/\s+/)[0] || message
SearchTerm(message) ==
  LET first == SubSeq(message, 1, FirstSpace(message, 1) - 1)
  IN  IF first = <<>> THEN message ELSE first

\* SELECT question, answer_text FROM answers WHERE profile_id = $1
\*   AND (answer_text ILIKE ... OR question ILIKE ...)
\*  ORDER BY created_at DESC LIMIT 3
\* Beside the two columns a row keeps the id of its answer, which the
\* reply does not show.
FallbackRows(pid, term) ==
  LET hit == {a \in OwnedBy(pid) :
                ILike(answers[a].answer_text, term) \/ ILike(answers[a].question, term)}
      ids == Limit(OrderDesc(answers, hit), FallbackLimit)
  IN  [i \in 1..Len(ids) |->
         [id |-> ids[i], question |-> answers[ids[i]].question,
          answer_text |-> answers[ids[i]].answer_text]]

\* rows.map(r => `* Q: ${r.question}\n  A: ${r.answer_text}`).join('\n'),
\* the bullet of the source written as an asterisk.
RECURSIVE Snippets(_)
Snippets(rows) ==
  IF rows = <<>> THEN <<>>
  ELSE <<"* Q: ">> \o Head(rows).question \o <<NL, "  A: ">> \o Head(rows).answer_text
       \o (IF Len(rows) > 1 THEN <<NL>> ELSE <<>>) \o Snippets(Tail(rows))

\* A variant whose reply without snippets leaves the disclosure out.
FallbackReply_bare(message, rows) ==
  IF rows # <<>>
  THEN <<"You asked: \"">> \o message
       \o <<"\".", NL, "Here are bits I found from your saved words:", NL>>
       \o Snippets(rows) \o <<NL, NL>> \o Disclosure
  ELSE <<"You asked: \"">> \o message
       \o <<"\". I don't see anything related yet. Add more answers!">>

\* The reply of the catch block.
FallbackReply(message, rows) ==
  IF rows # <<>>
  THEN <<"You asked: \"">> \o message
       \o <<"\".", NL, "Here are bits I found from your saved words:", NL>>
       \o Snippets(rows) \o <<NL, NL>> \o Disclosure
  ELSE <<"You asked: \"">> \o message
       \o <<"\". I don't see anything related yet. Add more answers!", NL, NL>>
       \o Disclosure

\* A message of msgs arrives with a header of hdrs.
ChatBeginWith(r, hdrs, msgs) ==
  \E hdr \in hdrs, message \in msgs :
    LET q == NewReq("chat", hdr, 0, <<>>, <<>>, message)
    IN  /\ Free(r)
        /\ IF message = <<>> THEN Reject(r, Fail(q, 400, "message is required"))
           ELSE Connect(r, [q EXCEPT !.pc = "primary"])
        /\ UNCHANGED <<env, store>>

ChatBegin(r) == ChatBeginWith(r, RawHeaders, Messages)

\* The outcomes of the external calls of the try block: the profile's SELECT
\* fails (authFail), embedText (out), the candidates' SELECT fails (selFail),
\* the backend (llm).  A call that is not reached has one outcome.
NoVector == [kind |-> "undefined", vec |-> <<>>]
NoCompletion == [kind |-> "malformed", text |-> <<>>]
ChatOutcomes ==
  {i \in [authFail : BOOLEAN, out : EmbedOutcomes, selFail : BOOLEAN, llm : LLMOutcomes] :
     /\ i.authFail => i.out = NoVector
     /\ (i.authFail \/ i.out.kind = "throw") => ~i.selFail
     /\ (i.authFail \/ i.out.kind # "ok" \/ i.selFail) => i.llm = NoCompletion}

\* A variant that leaves the try block when no excerpt is kept.
PrimaryThrows_nothingFound(a, i, rows, top) ==
  CASE ~hasOpenAI            -> "no_openai_key"
    [] ~a.ok                 -> a.err
    [] i.out.kind = "throw"  -> "embed"
    [] i.selFail             -> "retrieve"
    [] i.out.kind = "undefined" /\ rows # <<>> -> "score"
    [] top = <<>>            -> "nothing_found"
    [] i.llm.kind = "throw"  -> "generate"
    [] OTHER                 -> ""

\* What the try block throws, "" when it returns: from `if (!openai) throw`
\* down to the call of the backend.  cosineSim(undefined, emb) throws a
\* TypeError at a.length, once there is a row to score.
PrimaryThrows(a, i, rows, top) ==
  CASE ~hasOpenAI            -> "no_openai_key"
    [] ~a.ok                 -> a.err
    [] i.out.kind = "throw"  -> "embed"
    [] i.selFail             -> "retrieve"
    [] i.out.kind = "undefined" /\ rows # <<>> -> "score"
    [] top # <<>> /\ i.llm.kind = "throw" -> "generate"
    [] OTHER                 -> ""

\* A variant whose catch block answers the backend's failure itself.
OnPrimaryError_answered(r, q, thrown) ==
  IF thrown = "generate"
  THEN Finish(r, Fail([q EXCEPT !.perr = thrown], 500, "llm_error"))
  ELSE Continue(r, [q EXCEPT !.pc = "fallback", !.perr = thrown])

\* catch (e) { console.warn('chat_fallback', ...); try { ...: the request
\* goes on in the catch block.
OnPrimaryError(r, q, thrown) ==
  Continue(r, [q EXCEPT !.pc = "fallback", !.perr = thrown])

\* A variant that uses up the best excerpt: its embedding is deleted.
ChatPrimaryWith_consuming(r, outcomes) ==
  \E i \in outcomes :
    LET q == req[r]
        a == Authenticate(q.hdr, i.authFail)
        rows == CandidateRows(a.pid)
        top == IF i.out.kind = "ok" THEN TopExcerpts(ScoreRows(i.out.vec, rows)) ELSE <<>>
        thrown == PrimaryThrows(a, i, rows, top)
        q2 == [q EXCEPT !.calls = IF hasOpenAI /\ a.ok THEN 1 ELSE 0,
                        !.gen = IF thrown \in {"", "generate"} /\ top # <<>> THEN 1 ELSE 0,
                        !.qemb = IF hasOpenAI /\ a.ok THEN i.out.vec ELSE <<>>]
    IN  /\ At(r, "chat", "primary")
        /\ IF thrown # "" THEN OnPrimaryError(r, q2, thrown)
           ELSE IF top = <<>>
           THEN Finish(r, [Ok(q2) EXCEPT !.pid = a.pid, !.path = "primary",
                                         !.answer = NotSureReply])
           ELSE Finish(r, [Ok(q2) EXCEPT !.pid = a.pid, !.path = "primary",
                                         !.answer = ComposedAnswer(i.llm),
                                         !.items = top, !.cites = Citations(top)])
        /\ embeddings' = IF top = <<>> THEN embeddings ELSE Remove(embeddings, top[1].id)
        /\ UNCHANGED <<env, answers, nextId, clock>>

\* The try block, with the outcomes of its external calls drawn from `outcomes`.
ChatPrimaryWith(r, outcomes) ==
  \E i \in outcomes :
    LET q == req[r]
        a == Authenticate(q.hdr, i.authFail)
        rows == CandidateRows(a.pid)
        top == IF i.out.kind = "ok" THEN TopExcerpts(ScoreRows(i.out.vec, rows)) ELSE <<>>
        thrown == PrimaryThrows(a, i, rows, top)
        q2 == [q EXCEPT !.calls = IF hasOpenAI /\ a.ok THEN 1 ELSE 0,
                        !.gen = IF thrown \in {"", "generate"} /\ top # <<>> THEN 1 ELSE 0,
                        !.qemb = IF hasOpenAI /\ a.ok THEN i.out.vec ELSE <<>>]
    IN  /\ At(r, "chat", "primary")
        /\ IF thrown # "" THEN OnPrimaryError(r, q2, thrown)
           ELSE IF top = <<>>
           THEN Finish(r, [Ok(q2) EXCEPT !.pid = a.pid, !.path = "primary",
                                         !.answer = NotSureReply])
           ELSE Finish(r, [Ok(q2) EXCEPT !.pid = a.pid, !.path = "primary",
                                         !.answer = ComposedAnswer(i.llm),
                                         !.items = top, !.cites = Citations(top)])
        /\ UNCHANGED <<env, store>>

ChatPrimary(r) == ChatPrimaryWith(r, ChatOutcomes)

\* The catch block.
ChatFallback(r) ==
  \E dbFail \in BOOLEAN :
    LET q == req[r]
        g == getProfileId(q.hdr)
        rows == FallbackRows(g.pid, SearchTerm(q.msg))
    IN  /\ At(r, "chat", "fallback")
        /\ IF ~g.ok THEN Finish(r, [Fail(q, g.status, g.err) EXCEPT !.path = "fallback"])
           ELSE IF dbFail THEN Finish(r, [Fail(q, 500, "pg_error") EXCEPT !.path = "fallback"])
           ELSE Finish(r, [Ok(q) EXCEPT !.pid = g.pid, !.path = "fallback",
                                        !.term = SearchTerm(q.msg), !.items = rows,
                                        !.answer = FallbackReply(q.msg, rows)])
        /\ UNCHANGED <<env, store>>

(***************************************************************************)
(* The response of the last step has been taken note of.                   *)
(***************************************************************************)
Ack ==
  /\ resp # Idle
  /\ resp' = Idle
  /\ UNCHANGED <<env, store, checkedOut, req>>

Init ==
  /\ hasOpenAI \in BOOLEAN
  /\ int8AsString \in BOOLEAN
  /\ profiles = {1, 2}
  /\ answers = <<>>
  /\ embeddings = <<>>
  /\ nextId = 1
  /\ clock = 0
  /\ checkedOut = 0
  /\ req = <<Idle>>
  /\ resp = Idle

Next ==
  \/ Ack
  \/ \E r \in Slots : SaveBegin(r)
  \/ \E r \in Slots : SaveAuth(r)
  \/ \E r \in Slots : SaveInsert(r)
  \/ \E r \in Slots : SaveEmbed(r)
  \/ \E r \in Slots : ReadBegin(r)
  \/ \E r \in Slots : ListQuery(r)
  \/ \E r \in Slots : CountQuery(r)
  \/ \E r \in Slots : ExportQuery(r)
  \/ \E r \in Slots : PutBegin(r)
  \/ \E r \in Slots : PutCheck(r)
  \/ \E r \in Slots : PutUpdate(r)
  \/ \E r \in Slots : PutEmbed(r)
  \/ \E r \in Slots : DeleteBegin(r)
  \/ \E r \in Slots : DeleteCheck(r)
  \/ \E r \in Slots : DeleteRow(r)
  \/ \E r \in Slots : ReindexBegin(r)
  \/ \E r \in Slots : ReindexSelect(r)
  \/ \E r \in Slots : ReindexItem(r)
  \/ \E r \in Slots : ChatBegin(r)
  \/ \E r \in Slots : ChatPrimary(r)
  \/ \E r \in Slots : ChatFallback(r)

Spec == Init /\ [][Next]_vars


(***************************************************************************)
(* The reads of a loaded store: the stores that saves whose embeddings     *)
(* succeeded leave behind, of up to MaxCand answers with every choice of   *)
(* the provider's vectors, and of one answer more than the list and the    *)
(* candidate query return.  /chat and GET /answers run on them, the        *)
(* provider and the backend up.                                            *)
(***************************************************************************)
\* The embedding of the message, and vectors at cosine 0.9, 0.5, 0.1 and
\* 0.05 of it.
QueryVector == <<1, 0, 0, 0, 0>>
RankVectors == <<<<9, 3, 3, 1, 0>>, <<1, 1, 1, 1, 0>>, <<1, 9, 3, 3, 0>>, <<1, 19, 6, 1, 1>>>>

\* The owners of n answers: all of profile 1, or by turns of 1 and 2.
Owners(n) ==
  {[i \in 1..n |-> 1], [i \in 1..n |-> IF i % 2 = 1 THEN 1 ELSE 2]}

\* The store after answers 1..Len(vs) were saved in turn by own[i], the
\* provider returning vs[i].
Loaded(own, vs) ==
  [answers |-> [i \in 1..Len(vs) |->
                  [profile_id |-> own[i], question |-> <<"q">>, answer_text |-> <<"A">>,
                   created_at |-> i, updated_at |-> i]],
   embeddings |-> [i \in 1..Len(vs) |-> [content |-> <<"A">>, embedding |-> vs[i]]]]

\* The numbers of answers of the loaded stores, and the vectors of a store
\* of n answers: every choice up to MaxCand, one choice beyond.
LoadedSizes == 0..MaxCand \cup {ListLimit + 1, PoolLimit + 1}
LoadedVectors(n) ==
  IF n <= MaxCand THEN [1..n -> Range(RankVectors)]
  ELSE {[i \in 1..n |-> RankVectors[(i % Len(RankVectors)) + 1]]}

ReadOutcomes ==
  {[authFail |-> FALSE, out |-> [kind |-> "ok", vec |-> QueryVector], selFail |-> FALSE,
    llm |-> [kind |-> "text", text |-> <<"h", "i">>]]}

InitRead ==
  /\ hasOpenAI = TRUE
  /\ int8AsString = FALSE
  /\ profiles = {1, 2}
  /\ \E n \in LoadedSizes : \E own \in Owners(n), vs \in LoadedVectors(n) :
       /\ answers = Loaded(own, vs).answers
       /\ embeddings = Loaded(own, vs).embeddings
       /\ nextId = n + 1
       /\ clock = n
  /\ checkedOut = 0
  /\ req = <<Idle>>
  /\ resp = Idle

NextRead ==
  \/ Ack
  \/ \E r \in Slots : ReadBeginWith(r, {"list"}, {"1", "2"})
  \/ \E r \in Slots : ListQuery(r)
  \/ \E r \in Slots : ChatBeginWith(r, {"1"}, {<<"a">>})
  \/ \E r \in Slots : ChatPrimaryWith(r, ReadOutcomes)

SpecRead == InitRead /\ [][NextRead]_vars

(***************************************************************************)
(* Two requests in flight.  Profile 1 has one answer, embedded or not, and *)
(* the driver hands BIGINT over as a number, so that its owner may update  *)
(* and delete it.  Every request comes from profile 1; saves, updates,     *)
(* deletions, reindex runs, listings and chats interleave step by step, each      *)
(* statement on its own (no handler opens a transaction).  The clock       *)
(* counts the timestamps taken since the first answer was saved.           *)
(***************************************************************************)
\* What the calls of a chat come to: the provider and the backend answer,
\* or the provider's response carries no vector.
ConcOutcomes ==
  ReadOutcomes \cup
    {[authFail |-> FALSE, out |-> NoVector, selFail |-> FALSE, llm |-> NoCompletion]}

InitConc ==
  /\ hasOpenAI \in BOOLEAN
  /\ int8AsString = FALSE
  /\ profiles = {1, 2}
  /\ answers = <<[profile_id |-> 1, question |-> <<"q">>, answer_text |-> <<"A">>,
                  created_at |-> 0, updated_at |-> 0]>>
  /\ \E v \in Vectors :
       embeddings \in {<<>>, <<[content |-> <<"A">>, embedding |-> v]>>}
  /\ nextId = 2
  /\ clock = 0
  /\ checkedOut = 0
  /\ req = <<Idle, Idle>>
  /\ resp = Idle

NextConc ==
  \/ Ack
  \/ \E r \in Slots : SaveBeginWith(r, {"1"}, Questions, Texts)
  \/ \E r \in Slots : SaveAuth(r)
  \/ \E r \in Slots : SaveInsert(r)
  \/ \E r \in Slots : SaveEmbed(r)
  \/ \E r \in Slots : PutBeginWith(r, {"1"}, {1}, Texts)
  \/ \E r \in Slots : PutCheck(r)
  \/ \E r \in Slots : PutUpdate(r)
  \/ \E r \in Slots : PutEmbed(r)
  \/ \E r \in Slots : DeleteBeginWith(r, {"1"}, 1..MaxAnswers)
  \/ \E r \in Slots : DeleteCheck(r)
  \/ \E r \in Slots : DeleteRow(r)
  \/ \E r \in Slots : ReindexBeginWith(r, {"1"})
  \/ \E r \in Slots : ReindexSelect(r)
  \/ \E r \in Slots : ReindexItem(r)
  \/ \E r \in Slots : ReadBeginWith(r, {"list"}, {"1"})
  \/ \E r \in Slots : ListQuery(r)
  \/ \E r \in Slots : ChatBeginWith(r, {"1"}, {<<"a">>})
  \/ \E r \in Slots : ChatPrimaryWith(r, ConcOutcomes)
  \/ \E r \in Slots : ChatFallback(r)

SpecConc == InitConc /\ [][NextConc]_vars

(***************************************************************************)
(* Two updates in flight, nothing failing.  The owner of answer 1 updates  *)
(* it, the connection holds and the provider answers every embedding call  *)
(* with a vector.                                                          *)
(***************************************************************************)
InitPuts ==
  /\ InitConc
  /\ hasOpenAI

NextPuts ==
  \/ Ack
  \/ \E r \in Slots : PutBeginWith(r, {"1"}, {1}, Texts)
  \/ \E r \in Slots : PutCheckWith(r, {FALSE})
  \/ \E r \in Slots : PutUpdateWith(r, {FALSE})
  \/ \E r \in Slots : PutEmbedWith(r, [kind : {"ok"}, vec : Vectors], {FALSE})

SpecPuts == InitPuts /\ [][NextPuts]_vars

(***************************************************************************)
(* Retrievals in succession.  On a loaded store, chats of profiles 1 and 2 *)
(* run one after the other, the provider returning one of two vectors for  *)
(* the message; nothing writes.  The second slot keeps the response before *)
(* the last one.                                                           *)
(***************************************************************************)
TwiceOutcomes ==
  {[authFail |-> FALSE, out |-> [kind |-> "ok", vec |-> v], selFail |-> FALSE,
    llm |-> [kind |-> "text", text |-> <<"h", "i">>]] : v \in {QueryVector, RankVectors[1]}}

InitTwice ==
  /\ hasOpenAI = TRUE
  /\ int8AsString = FALSE
  /\ profiles = {1, 2}
  /\ \E n \in 0..MaxTwice : \E own \in Owners(n), vs \in LoadedVectors(n) :
       /\ answers = Loaded(own, vs).answers
       /\ embeddings = Loaded(own, vs).embeddings
       /\ nextId = n + 1
       /\ clock = n
  /\ checkedOut = 0
  /\ req = <<Idle, [Idle EXCEPT !.pc = "kept"]>>
  /\ resp = Idle

\* The response of the last step has been taken note of, and is kept.
Keep ==
  /\ resp # Idle
  /\ req' = [req EXCEPT ![2] = [resp EXCEPT !.pc = "kept"]]
  /\ resp' = Idle
  /\ UNCHANGED <<env, store, checkedOut>>

NextTwice ==
  \/ Keep
  \/ \E r \in Slots : ChatBeginWith(r, {"1", "2"}, {<<"a">>})
  \/ \E r \in Slots : ChatPrimaryWith(r, TwiceOutcomes)

SpecTwice == InitTwice /\ [][NextTwice]_vars

(***************************************************************************)
(* cosineSim on its own.  A query vector a and the vector b of the one     *)
(* embedding of the store are drawn from the vectors of at most MaxDim     *)
(* components within -MaxAbs..MaxAbs, the empty and the zero vectors among *)
(* them; the step scores them both ways round.                             *)
(***************************************************************************)
CosVectors == UNION {[1..n -> (0 - MaxAbs)..MaxAbs] : n \in 0..MaxDim}

InitCos ==
  /\ hasOpenAI = TRUE
  /\ int8AsString = FALSE
  /\ profiles = {1, 2}
  /\ answers = <<[profile_id |-> 1, question |-> <<"q">>, answer_text |-> <<"A">>,
                  created_at |-> 0, updated_at |-> 0]>>
  /\ \E b \in CosVectors : embeddings = <<[content |-> <<"A">>, embedding |-> b]>>
  /\ nextId = 2
  /\ clock = 0
  /\ checkedOut = 0
  /\ \E a \in CosVectors :
       req = <<[Idle EXCEPT !.op = "score", !.pc = "begin", !.qemb = a]>>
  /\ resp = Idle

\* score: cosineSim(qEmb, emb), and the same with the arguments exchanged.
Score(r) ==
  LET q == req[r]
      b == embeddings[1].embedding
  IN  /\ At(r, "score", "begin")
      /\ req' = [req EXCEPT ![r] = [q EXCEPT !.pc = "scored",
                                            !.items = <<cosineSim(q.qemb, b),
                                                        cosineSim(b, q.qemb)>>]]
      /\ UNCHANGED <<env, store, checkedOut, resp>>

NextCos == \E r \in Slots : Score(r)

SpecCos == InitCos /\ [][NextCos]_vars

(***************************************************************************)
(* Reindex runs, again and again.  Profile 1 has answers without           *)
(* embedding and nothing else writes.  The embedding call fails on every   *)
(* answer of the text Poison, each time, and succeeds on the others; the   *)
(* connection holds.  The backlogs are those of MaxBacklog answers at      *)
(* most, any of them failing, and one of a full batch of failing answers   *)
(* followed by a later one that does not fail.  A run that may start does  *)
(* start, and a run under way goes on (weak fairness).                     *)
(***************************************************************************)
Poison == <<"b">>

\* The backlogs: n answers, those of P failing.
Backlogs ==
  {[n |-> n, P |-> P] : n \in 1..MaxBacklog, P \in SUBSET (1..MaxBacklog)}
    \cup {[n |-> ReindexLimit + 1, P |-> 1..ReindexLimit]}

\* What the provider answers for the text of a row of the batch.
PoisonOutcome ==
  [text \in Texts |->
     IF text = Poison THEN {[kind |-> "throw", vec |-> <<>>]}
     ELSE {[kind |-> "ok", vec |-> <<1, 0>>]}]

InitReindex ==
  /\ hasOpenAI = TRUE
  /\ int8AsString = FALSE
  /\ profiles = {1, 2}
  /\ \E b \in Backlogs :
       /\ answers = [i \in 1..b.n |->
                       [profile_id |-> 1, question |-> <<"q">>,
                        answer_text |-> IF i \in b.P THEN Poison ELSE <<"A">>,
                        created_at |-> i, updated_at |-> i]]
       /\ nextId = b.n + 1
       /\ clock = b.n
  /\ embeddings = <<>>
  /\ checkedOut = 0
  /\ req = <<Idle>>
  /\ resp = Idle

NextReindex ==
  \/ Ack
  \/ \E r \in Slots : ReindexBeginWith(r, {"1"})
  \/ \E r \in Slots : ReindexSelectWith(r, {FALSE})
  \/ \E r \in Slots : ReindexItemOn(r, PoisonOutcome, {FALSE})

SpecReindex == InitReindex /\ [][NextReindex]_vars /\ WF_vars(NextReindex)

(***************************************************************************)
(* A reindex run beside saves and updates, nothing failing.  Profile 1     *)
(* saves answers, updates answer 1 and runs reindex, two requests at a     *)
(* time; the connection holds and the provider answers every embedding     *)
(* call with a vector.                                                     *)
(***************************************************************************)
\* The provider answers every text with a vector.
Embedded == [text \in Texts |-> [kind : {"ok"}, vec : Vectors]]

InitSync ==
  /\ InitConc
  /\ hasOpenAI

NextSync ==
  \/ Ack
  \/ \E r \in Slots : SaveBeginWith(r, {"1"}, Questions, Texts)
  \/ \E r \in Slots : SaveAuthWith(r, {FALSE})
  \/ \E r \in Slots : SaveInsertWith(r, {FALSE})
  \/ \E r \in Slots : SaveEmbedWith(r, UNION Range(Embedded), {FALSE})
  \/ \E r \in Slots : PutBeginWith(r, {"1"}, {1}, Texts)
  \/ \E r \in Slots : PutCheckWith(r, {FALSE})
  \/ \E r \in Slots : PutUpdateWith(r, {FALSE})
  \/ \E r \in Slots : PutEmbedWith(r, UNION Range(Embedded), {FALSE})
  \/ \E r \in Slots : ReindexBeginWith(r, {"1"})
  \/ \E r \in Slots : ReindexSelectWith(r, {FALSE})
  \/ \E r \in Slots : ReindexItemOn(r, Embedded, {FALSE})

SpecSync == InitSync /\ [][NextSync]_vars

(***************************************************************************)
(* Properties.                                                             *)
(***************************************************************************)
\* The header is a positive integer; the profile it names.
WellFormed(hdr) == HeaderNumber(hdr).int /\ HeaderNumber(hdr).val > 0
CallerId(hdr) == HeaderNumber(hdr).val

\* The response of the last step is the one of a request of kind op.
Done(op) == resp.op = op /\ resp.pc = "done"

\* The answer row a save, as q records it, has written.
Stored(q) ==
  /\ q.id \in DOMAIN answers
  /\ answers[q.id].profile_id = q.pid
  /\ answers[q.id].question = q.question
  /\ answers[q.id].answer_text = q.text

\* C1: every successful reply of /chat ends with the disclosure sentence, on
\* the primary path for any text of the backend as on the fallback path.
C1_DisclosureOnEveryReply ==
  (Done("chat") /\ resp.status = 200) => EndsWith(resp.answer, Disclosure)

\* What the stages of the primary path throw.
StageErrors == {"embed", "retrieve", "score", "generate"}

\* C2: an exception of a stage of the primary path (embedding call,
\* retrieval query, scoring, generative call) never reaches the caller: the
\* request goes on in the fallback, and its response is the fallback's, the
\* reply composed from the fallback's rows or the fallback's own failure.
C2_PrimaryErrorsFallBack ==
  /\ \A r \in Slots :
       (req[r].op = "chat" /\ req[r].perr # "") => req[r].pc = "fallback"
  /\ (Done("chat") /\ resp.path = "primary") => resp.perr = ""
  /\ (Done("chat") /\ resp.perr \in StageErrors) =>
       /\ resp.path = "fallback"
       /\ \/ /\ resp.status = 200
             /\ resp.items = FallbackRows(resp.pid, SearchTerm(resp.msg))
             /\ resp.answer = FallbackReply(resp.msg, resp.items)
          \/ resp.status = 500 /\ resp.err = "pg_error"

\* C2: the backend has thrown and the caller has the fallback's snippets.
C2_Witness ==
  /\ Done("chat") /\ resp.perr = "generate"
  /\ resp.status = 200 /\ resp.path = "fallback" /\ resp.items # <<>>

\* C3, as stated: without a provider /chat answers a non-empty message with
\* a reply that carries the disclosure, or with a 500 when the fallback's
\* query fails, and with nothing else.
C3_NoProviderNeverRejects ==
  (~hasOpenAI /\ Done("chat") /\ resp.msg # <<>>) =>
    \/ resp.status = 200 /\ Contains(resp.answer, Disclosure)
    \/ resp.status = 500

\* C3, amended: without a provider /chat answers a non-empty message on the
\* fallback path without a call of the provider: 401 'missing profile id'
\* when the header is not a positive integer, else the fallback's reply
\* ending with the disclosure, or 500 when the fallback's query fails.
C3_NoProviderFallback ==
  (~hasOpenAI /\ Done("chat") /\ resp.msg # <<>>) =>
    /\ resp.path = "fallback" /\ resp.perr = "no_openai_key" /\ resp.calls = 0
    /\ IF ~WellFormed(resp.hdr)
       THEN resp.status = 401 /\ resp.err = "missing profile id"
       ELSE \/ resp.status = 200 /\ EndsWith(resp.answer, Disclosure)
            \/ resp.status = 500 /\ resp.err = "pg_error"

\* C3: without a provider, a reply with snippets that ends with the
\* disclosure.
C3_Witness ==
  /\ ~hasOpenAI /\ Done("chat") /\ resp.status = 200
  /\ resp.items # <<>> /\ EndsWith(resp.answer, Disclosure)

\* An update or a delete of an existing answer by an existing profile that
\* does not own it has been answered.
ForeignAnswer ==
  /\ Done("put") \/ Done("delete")
  /\ WellFormed(resp.hdr) /\ CallerId(resp.hdr) \in profiles
  /\ resp.id \in DOMAIN answers
  /\ answers[resp.id].profile_id # CallerId(resp.hdr)

\* C4: an update or a delete of an answer a different profile owns runs no
\* statement that writes and no call of the provider, and, its input valid
\* and the storage up, is answered 403 'forbidden'; the step that answers
\* 403 leaves the answer and its embedding as they were.
C4_ForeignAnswerForbidden ==
  /\ [](ForeignAnswer =>
          /\ resp.status # 200 /\ resp.writes = 0 /\ resp.calls = 0
          /\ (resp.status # 400 /\ resp.err # "pg_error") =>
               (resp.status = 403 /\ resp.err = "forbidden"))
  /\ [][(resp'.op \in {"put", "delete"} /\ resp'.status = 403) =>
          (answers' = answers /\ embeddings' = embeddings)]_vars

\* C4: an update of another profile's embedded answer is answered 403 where
\* the driver hands the owner over as a number.
C4_Witness ==
  /\ ForeignAnswer /\ Done("put") /\ resp.status = 403
  /\ ~int8AsString /\ hasOpenAI /\ resp.id \in DOMAIN embeddings

\* C5: a save has its row in the store before its embedding attempt begins,
\* and is answered 200 with the row stored however the attempt ends: the
\* call succeeds, the call throws, the upsert fails, or there is no provider;
\* the row has an embedding exactly when the attempt succeeded.
C5_SaveBeforeEmbedding ==
  /\ \A r \in Slots :
       (req[r].op = "save" /\ req[r].pc = "embed") =>
         (Stored(req[r]) /\ req[r].calls = 0 /\ req[r].id \notin DOMAIN embeddings)
  /\ (Done("save") /\ resp.id # 0) =>
       /\ resp.status = 200 /\ Stored(resp)
       /\ resp.emb \in {"ok", "threw", "rejected", "none"}
       /\ (resp.emb = "none") = ~hasOpenAI
       /\ (resp.emb = "ok") = (resp.id \in DOMAIN embeddings)
       /\ resp.emb = "ok" => embeddings[resp.id].content = resp.text

\* C5: a save is answered 200 although the provider threw.
C5_Witness ==
  /\ Done("save") /\ resp.status = 200 /\ resp.emb = "threw"
  /\ Stored(resp) /\ resp.id \notin DOMAIN embeddings

\* C6: a save with a question and a text whose header names no profile is
\* answered 401 'invalid profile id' (500 when the profile's SELECT fails),
\* has inserted nothing and has not called the provider; no answer is ever
\* owned by an id that is no profile's.
C6_UnknownProfileSavesNothing ==
  /\ \A a \in DOMAIN answers : answers[a].profile_id \in profiles
  /\ (/\ Done("save") /\ resp.question # <<>> /\ resp.text # <<>>
      /\ WellFormed(resp.hdr) /\ CallerId(resp.hdr) \notin profiles) =>
       /\ resp.id = 0 /\ resp.writes = 0 /\ resp.calls = 0
       /\ \/ resp.status = 401 /\ resp.err = "invalid profile id"
          \/ resp.status = 500 /\ resp.err = "pg_error"

\* C6: such a save is answered 401 with a provider configured and answers
\* in the store.
C6_Witness ==
  /\ Done("save") /\ resp.status = 401 /\ resp.err = "invalid profile id"
  /\ hasOpenAI /\ DOMAIN answers # {}

\* C8: the excerpts and the citations of a reply of the primary path are
\* taken from answers that the calling profile owns and that have an
\* embedding.
C8_ExcerptsOwnedAndEmbedded ==
  (Done("chat") /\ resp.status = 200 /\ resp.path = "primary") =>
    /\ resp.pid = CallerId(resp.hdr)
    /\ \A i \in DOMAIN resp.items :
         /\ resp.items[i].id \in OwnedBy(resp.pid) \cap DOMAIN embeddings
         /\ resp.items[i].question = answers[resp.items[i].id].question
         /\ resp.items[i].answer_text = answers[resp.items[i].id].answer_text
    /\ DOMAIN resp.cites = DOMAIN resp.items
    /\ \A i \in DOMAIN resp.cites :
         /\ resp.cites[i].idx = i
         /\ resp.cites[i].question = resp.items[i].question
         /\ resp.cites[i].score = resp.items[i].score

\* C8: a reply with an excerpt while another profile has an embedded answer
\* too.
C8_Witness ==
  /\ Done("chat") /\ resp.status = 200 /\ resp.path = "primary"
  /\ resp.items # <<>>
  /\ \E a \in DOMAIN embeddings : answers[a].profile_id # resp.pid

\* Candidate i of the scored candidates goes before candidate j in the
\* ranking: by its score, and at equal scores by the order of the query.
Before(pool, i, j) ==
  \/ ScoreGT(pool[i].score, pool[j].score)
  \/ ScoreEQ(pool[i].score, pool[j].score) /\ i < j
Ranks(pool) ==
  [i \in DOMAIN pool |-> 1 + Cardinality({j \in DOMAIN pool : Before(pool, j, i)})]
Scores(rows) == [k \in DOMAIN rows |-> rows[k].score]
Score90 == [n |-> 9, d2 |-> 100]
Score50 == [n |-> 1, d2 |-> 4]
Score05 == [n |-> 1, d2 |-> 400]

\* C7: the excerpts of a reply are the candidates of the query sorted by
\* score descending, candidates of equal score in the order of the query,
\* cut to the first 5, less those of a score of 0.1 or below: at most 5, each
\* above 0.1, none before one of a higher score; candidates scoring 0.9, 0.5
\* and 0.05 give the excerpts of 0.9 and 0.5 in this order.
C7_RankedExcerpts ==
  (Done("chat") /\ resp.status = 200 /\ resp.path = "primary") =>
    LET top == resp.items
        pool == ScoreRows(resp.qemb, CandidateRows(resp.pid))
        rank == Ranks(pool)
        kept == {i \in DOMAIN pool : rank[i] <= TopK /\ ScoreGT(pool[i].score, MinScore)}
    IN  /\ Len(top) = Cardinality(kept)
        /\ \A i \in kept : top[rank[i]] = pool[i]
        /\ Len(top) <= TopK
        /\ \A k \in DOMAIN top : ScoreGT(top[k].score, MinScore)
        /\ \A k, l \in DOMAIN top : k < l => ~ScoreGT(top[l].score, top[k].score)
        /\ (Len(pool) = 3 /\ Range(Scores(pool)) = {Score90, Score50, Score05}) =>
             Scores(top) = <<Score90, Score50>>

\* C7: of more than 5 candidates fewer than 5 are left, two of them of the
\* same score, and one of the first 5 is dropped for its score.
C7_Witness ==
  /\ Done("chat") /\ resp.status = 200 /\ resp.path = "primary"
  /\ Len(resp.items) < TopK
  /\ \E k \in DOMAIN resp.items : k > 1 /\ ScoreEQ(resp.items[k].score, resp.items[1].score)
  /\ LET pool == ScoreRows(resp.qemb, CandidateRows(resp.pid))
         rank == Ranks(pool)
     IN  /\ Len(pool) > TopK
         /\ \E i \in DOMAIN pool : rank[i] <= TopK /\ ~ScoreGT(pool[i].score, MinScore)

\* C9: the list of a profile holds answers of this profile only, as they
\* are in the store, the latest first, at most 100 of them, and no answer
\* of the profile is left out unless the list is full and the answer older
\* than each one listed.
C9_ListScopedRecentFirst ==
  (Done("list") /\ resp.status = 200) =>
    LET l == resp.items
    IN  /\ resp.pid = CallerId(resp.hdr)
        /\ Len(l) <= ListLimit
        /\ \A k \in DOMAIN l :
             /\ l[k].id \in OwnedBy(resp.pid)
             /\ l[k].question = answers[l[k].id].question
             /\ l[k].answer_text = answers[l[k].id].answer_text
             /\ l[k].created_at = answers[l[k].id].created_at
        /\ \A k, m \in DOMAIN l : k < m => l[k].created_at > l[m].created_at
        /\ \A a \in OwnedBy(resp.pid) :
             \/ \E k \in DOMAIN l : l[k].id = a
             \/ /\ Len(l) = ListLimit
                /\ \A k \in DOMAIN l : answers[a].created_at < l[k].created_at

\* C9: a full list of a profile that owns more, in a store with answers of
\* another profile.
C9_Witness ==
  /\ Done("list") /\ resp.status = 200 /\ Len(resp.items) = ListLimit
  /\ Cardinality(OwnedBy(resp.pid)) > ListLimit
  /\ \E a \in DOMAIN answers : answers[a].profile_id # resp.pid

\* C10: a request of any scoped endpoint whose header is a well-formed id
\* of no profile is never answered 200.
C10_UnknownProfileRejected ==
  (resp.pc = "done" /\ WellFormed(resp.hdr) /\ CallerId(resp.hdr) \notin profiles) =>
    resp.status # 200


\* A /chat request with a message of an existing profile that owns no
\* answer has been answered.
ChatOfEmptyProfile ==
  /\ Done("chat") /\ resp.msg # <<>>
  /\ WellFormed(resp.hdr) /\ CallerId(resp.hdr) \in profiles
  /\ OwnedBy(CallerId(resp.hdr)) = {}

\* C11, as stated: /chat of an existing profile without answers is
\* answered, the storage up, with the fallback's invitation to add answers
\* and the disclosure, with a provider or without.
C11_EmptyProfileInvited ==
  (ChatOfEmptyProfile /\ resp.status # 500) =>
    (resp.status = 200 /\ resp.answer = FallbackReply(resp.msg, <<>>))

\* C11, amended: /chat of an existing profile without answers is answered
\* 200 with a reply that ends with the disclosure and has no excerpt, or 500
\* when the storage fails: the fallback's invitation when there is no
\* provider or when the embedding call or the candidate query failed, and
\* the canned 'not sure' reply of the primary path otherwise.
C11_EmptyProfileReply ==
  ChatOfEmptyProfile =>
    \/ resp.status = 500 /\ resp.err = "pg_error" /\ resp.path = "fallback"
    \/ /\ resp.status = 200 /\ resp.items = <<>> /\ resp.cites = <<>>
       /\ EndsWith(resp.answer, Disclosure)
       /\ IF hasOpenAI /\ resp.perr = ""
          THEN resp.path = "primary" /\ resp.answer = NotSureReply
          ELSE /\ resp.path = "fallback"
               /\ resp.perr \in {"no_openai_key", "pg_error", "embed", "retrieve"}
               /\ ~hasOpenAI => resp.perr = "no_openai_key"
               /\ resp.answer = FallbackReply(resp.msg, <<>>)

\* C11: with a provider the profile without answers gets the 'not sure'
\* reply, while another profile has an embedded answer.
C11_Witness ==
  /\ ChatOfEmptyProfile /\ hasOpenAI /\ resp.status = 200
  /\ resp.path = "primary" /\ resp.answer = NotSureReply
  /\ DOMAIN embeddings # {}


\* C12: a reindex run that selected n answers attempts each of them, one
\* call of the provider per answer, whatever the earlier attempts did; it
\* is answered 200 with indexed + failed = n, the answers counted as
\* indexed have an embedding of their text, and the answers counted as
\* failed have none.
C12_ReindexAttemptsAll ==
  /\ \A r \in Slots :
       (req[r].op = "reindex" /\ req[r].pc = "items") =>
         /\ req[r].ok + req[r].fail + Len(req[r].items) = req[r].batch
         /\ req[r].calls = req[r].ok + req[r].fail
  /\ (Done("reindex") /\ resp.batch > 0) =>
       /\ resp.status = 200 /\ resp.items = <<>>
       /\ resp.ok + resp.fail = resp.batch /\ resp.calls = resp.batch
       /\ Cardinality(resp.okIds) = resp.ok /\ Cardinality(resp.failIds) = resp.fail
       /\ resp.okIds \cap resp.failIds = {}
       /\ resp.okIds \subseteq OwnedBy(resp.pid)
       /\ resp.failIds \subseteq OwnedBy(resp.pid)
       /\ \A a \in resp.okIds :
            a \in DOMAIN embeddings /\ embeddings[a].content = answers[a].answer_text
       /\ \A a \in resp.failIds : a \notin DOMAIN embeddings

\* C12: a run of two answers failed on the older one and indexed the later.
C12_Witness ==
  /\ Done("reindex") /\ resp.status = 200 /\ resp.ok = 1 /\ resp.fail = 1
  /\ \E a \in resp.failIds, b \in resp.okIds :
       answers[a].created_at < answers[b].created_at


\* C13: a reindex run reports 'run again to index more' exactly when it
\* selected a full batch, and 'complete' otherwise; when it reports
\* 'complete' every answer of the profile has an embedding.
C13_CompleteMeansEmbedded ==
  (Done("reindex") /\ resp.status = 200) =>
    /\ (resp.hint = "run again to index more") = (resp.batch = ReindexLimit)
    /\ (resp.hint = "complete") = (resp.batch < ReindexLimit)
    /\ resp.hint = "complete" => OwnedBy(resp.pid) \subseteq DOMAIN embeddings


\* C14: without a provider a reindex request is answered 400
\* 'OPENAI_API_KEY not set' in its first step, whatever its header: it is
\* never in flight, takes no connection, looks up no profile, runs no
\* statement and calls no provider, and the step leaves the store and the
\* pool as they were.
C14_ReindexFailsFast ==
  /\ [](~hasOpenAI =>
          /\ \A r \in Slots : req[r].op # "reindex"
          /\ Done("reindex") =>
               /\ resp.status = 400 /\ resp.err = "OPENAI_API_KEY not set"
               /\ resp.pid = 0 /\ resp.batch = 0
               /\ resp.calls = 0 /\ resp.writes = 0)
  /\ [][(~hasOpenAI /\ resp'.op = "reindex") =>
          (resp' = resp \/ (store' = store /\ checkedOut' = checkedOut))]_vars

\* C14: the 400 of a reindex request without a provider, with answers in
\* the store that have no embedding and no connection out of the pool.
C14_Witness ==
  /\ ~hasOpenAI /\ Done("reindex") /\ resp.status = 400
  /\ WellFormed(resp.hdr) /\ OwnedBy(CallerId(resp.hdr)) # {}
  /\ checkedOut = 0


\* The requests in flight: every one of them holds a client of the pool.
InFlight == {r \in Slots : req[r].pc # "idle"}

\* C15: under every interleaving of two requests the clients checked out of
\* the pool are those of the requests in flight, one each: a request that
\* ends gives back exactly one client in the step that answers it, no other
\* step gives one back, and with no request in flight none is checked out.
C15_ConnectionsReleased ==
  /\ [](checkedOut = Cardinality(InFlight))
  /\ [][/\ \A r \in Slots :
             (req[r].pc # "idle" /\ req'[r].pc = "idle") =>
               (checkedOut' = checkedOut - 1 /\ resp'.pc = "done" /\ resp'.op = req[r].op)
        /\ checkedOut' < checkedOut =>
             \E r \in Slots : req[r].pc # "idle" /\ req'[r].pc = "idle"]_vars

\* C15: a chat that went through its catch block has been answered after
\* two writes took place, nothing is in flight and no client is out.
C15_Witness ==
  /\ Done("chat") /\ resp.path = "fallback" /\ resp.status = 200
  /\ clock = MaxClock
  /\ InFlight = {} /\ checkedOut = 0


\* C16: under every interleaving of saves, updates, deletions and reindex
\* runs the embeddings, one at most per answer as answer_id is their key,
\* are embeddings of answers in the store; the step that deletes an answer
\* leaves no embedding of it; and the upsert of a save or an update whose
\* answer is gone by then writes nothing.
C16_EmbeddingsOfAnswers ==
  /\ [](DOMAIN embeddings \subseteq DOMAIN answers)
  /\ [][/\ (resp'.op = "delete" /\ resp'.status = 200 /\ resp' # resp) =>
             (resp'.id \notin DOMAIN answers' /\ resp'.id \notin DOMAIN embeddings')
        /\ \A r \in Slots :
             (req[r].pc = "embed" /\ req[r].id \notin DOMAIN answers /\ req'[r] # req[r]) =>
               (embeddings' = embeddings /\ resp'.emb \in {"none", "threw", "rejected"})]_vars

\* C16: an update has been answered whose UPDATE was applied and whose
\* upsert was turned down, its answer having been deleted in between.
C16_Witness ==
  /\ Done("put") /\ resp.status = 200 /\ resp.writes = 1 /\ resp.emb = "rejected"
  /\ resp.id \notin DOMAIN answers /\ resp.id \notin DOMAIN embeddings


\* C17: once the updates of answer 1 by its owner, whose embedding calls and
\* statements all succeed, have completed, the embedding's content is the
\* answer's text.
C17_EmbeddingOfFinalText ==
  (InFlight = {} /\ 1 \in DOMAIN embeddings) =>
    embeddings[1].content = answers[1].answer_text


C19_CosineSymmetric ==
  \A r \in Slots :
    req[r].pc = "scored" =>
      /\ req[r].items[1] = req[r].items[2]
      /\ ScoreEQ(req[r].items[1], req[r].items[2])
      /\ req[r].items[1] = cosineSim(req[r].qemb, embeddings[1].embedding)

\* C19: a vector and a longer zero vector have been scored both ways round.
C19_Witness ==
  /\ req[1].pc = "scored"
  /\ Len(req[1].qemb) < Len(embeddings[1].embedding)
  /\ req[1].qemb # <<>>
  /\ \A i \in DOMAIN embeddings[1].embedding : embeddings[1].embedding[i] = 0
  /\ \E i \in DOMAIN req[1].qemb : req[1].qemb[i] # 0


\* The scored candidates of the chat that resp answers, and whether none
\* of them scores above 0.1.
ChatPool ==
  ScoreRows(resp.qemb,
            CandidateRows(IF WellFormed(resp.hdr) THEN CallerId(resp.hdr) ELSE 0))
NoneAboveMin == \A k \in DOMAIN ChatPool : ~ScoreGT(ChatPool[k].score, MinScore)

\* C20: a chat calls the generative backend once at most, and only with a
\* provider configured and a candidate scoring above 0.1; a chat whose
\* retrieval ran to its end and left no candidate above 0.1, the profile
\* without embedded answers included, is answered 200 with the 'not sure'
\* text and the disclosure, without citations, the backend not called and
\* the catch block not entered.
C20_BackendOnlyWithExcerpts ==
  Done("chat") =>
    /\ resp.gen \in {0, 1}
    /\ resp.gen = 1 => (hasOpenAI /\ ~NoneAboveMin /\ resp.calls = 1)
    /\ (resp.path = "primary" /\ resp.items # <<>>) => resp.gen = 1
    /\ NoneAboveMin =>
         /\ resp.gen = 0 /\ resp.perr # "generate"
         /\ (resp.msg # <<>> /\ resp.perr = "") =>
              /\ hasOpenAI
              /\ resp.status = 200 /\ resp.path = "primary"
              /\ resp.answer = NotSureReply /\ EndsWith(resp.answer, Disclosure)
              /\ resp.items = <<>> /\ resp.cites = <<>>

\* C20: the 'not sure' reply to a profile whose embedded answers all score
\* 0.1 or below.
C20_Witness ==
  /\ Done("chat") /\ resp.status = 200 /\ resp.path = "primary" /\ resp.perr = ""
  /\ ChatPool # <<>> /\ NoneAboveMin
  /\ resp.answer = NotSureReply /\ resp.gen = 0


\* The embedding of answer a is of another text than the answer's.
Stale(a) ==
  /\ a \in DOMAIN answers \cap DOMAIN embeddings
  /\ embeddings[a].content # answers[a].answer_text

\* A step of a request of kind op.
StepOf(op) ==
  \/ \E r \in Slots : req[r].op = op /\ req'[r] # req[r]
  \/ resp'.op = op /\ resp' # resp

\* C21: an update whose UPDATE was applied and whose embedding was not
\* regenerated is answered 200 all the same, the answer has the new text and
\* the step leaves the embeddings as they were; and no step of a reindex
\* run changes or removes an embedding that is there.
C21_StaleEmbeddingStays ==
  /\ []((Done("put") /\ resp.writes >= 1 /\ resp.emb # "ok") =>
          /\ resp.status = 200 /\ resp.writes = 1
          /\ answers[resp.id].answer_text = resp.text)
  /\ [][\A r \in Slots :
          (req[r].op = "put" /\ req[r].pc = "embed" /\ req'[r] # req[r]
             /\ resp'.emb # "ok") =>
            (embeddings' = embeddings /\ resp'.status = 200)]_vars
  /\ [][StepOf("reindex") =>
          \A a \in DOMAIN embeddings :
            a \in DOMAIN embeddings' /\ embeddings'[a] = embeddings[a]]_vars

\* C21: a reindex run of the owner has ended while an answer of theirs has
\* the embedding of its former text.
C21_Witness ==
  /\ Done("reindex") /\ resp.status = 200
  /\ \E a \in OwnedBy(resp.pid) : Stale(a)


\* What a step of the update in slot r leaves alone: the rows of answers
\* are the same ones, those of other ids as they were, the addressed one
\* with its question, owner and creation time; the embeddings of other ids
\* are as they were; a changed row has the new text and a later
\* modification time, a changed embedding is the addressed one's, of the
\* new text.
PutFrame(r) ==
  LET id == req[r].id
  IN  /\ DOMAIN answers' = DOMAIN answers /\ nextId' = nextId
      /\ \A a \in DOMAIN answers :
           IF a = id
           THEN /\ answers'[a].question = answers[a].question
                /\ answers'[a].profile_id = answers[a].profile_id
                /\ answers'[a].created_at = answers[a].created_at
           ELSE answers'[a] = answers[a]
      /\ DOMAIN embeddings' \ {id} = DOMAIN embeddings \ {id}
      /\ \A a \in DOMAIN embeddings \ {id} : embeddings'[a] = embeddings[a]
      /\ answers' # answers =>
           /\ answers'[id].answer_text = req[r].text
           /\ answers'[id].updated_at > answers[id].updated_at
      /\ embeddings' # embeddings =>
           (id \in DOMAIN embeddings' /\ embeddings'[id].content = req[r].text)

\* What a step of the deletion in slot r does: the step that answers 200
\* removes the addressed answer and its embedding and nothing else, any
\* other step leaves the store as it was.
DeleteFrame(r) ==
  LET id == req[r].id
  IN  IF resp'.op = "delete" /\ resp'.status = 200
      THEN /\ DOMAIN answers' = DOMAIN answers \ {id}
           /\ DOMAIN embeddings' = DOMAIN embeddings \ {id}
           /\ \A a \in DOMAIN answers' : answers'[a] = answers[a]
           /\ \A a \in DOMAIN embeddings' : embeddings'[a] = embeddings[a]
           /\ nextId' = nextId
      ELSE store' = store

\* C22: every step of an update changes at most the text and the
\* modification time of the addressed answer and its embedding; a
\* successful deletion removes the addressed answer and its embedding and
\* nothing else; an update answered 200 whose UPDATE found its row has
\* applied it.
C22_UpdateDeleteFrame ==
  [][\A r \in Slots :
       /\ (req[r].op = "put" /\ req'[r] # req[r]) => PutFrame(r)
       /\ (req[r].op = "delete" /\ req'[r] # req[r]) => DeleteFrame(r)
       /\ (req[r].op = "put" /\ req[r].pc = "write" /\ req'[r].pc = "embed"
             /\ req[r].id \in DOMAIN answers) =>
            (answers'[req[r].id].answer_text = req[r].text /\ req'[r].writes = 1)]_vars

\* C22: a deletion has been answered 200 while the other answer, updated
\* before, and its embedding are in the store.
C22_Witness ==
  /\ Done("delete") /\ resp.status = 200 /\ resp.id \notin DOMAIN answers
  /\ \E a \in DOMAIN answers \cap DOMAIN embeddings :
       /\ a # resp.id
       /\ answers[a].updated_at > answers[a].created_at
       /\ embeddings[a].content = answers[a].answer_text


\* The first whitespace-delimited token of a message, the message itself
\* when it holds none.
FirstToken(message) ==
  LET s == TrimStart(message)
      first == SubSeq(s, 1, FirstSpace(s, 1) - 1)
  IN  IF first = <<>> THEN message ELSE first

\* C23: the fallback searches for the first whitespace-delimited token of
\* the message, leading blanks or not, and returns the 3 latest at most of
\* the caller's answers that hold it in their question or text, whatever the
\* case, the latest first.
C23_FirstTokenSearched ==
  (Done("chat") /\ resp.status = 200 /\ resp.path = "fallback") =>
    LET t == FirstToken(resp.msg)
        l == resp.items
        Hit(a) == ILike(answers[a].answer_text, t) \/ ILike(answers[a].question, t)
    IN  /\ resp.term = t
        /\ Len(l) <= FallbackLimit
        /\ \A k \in DOMAIN l : l[k].id \in OwnedBy(resp.pid) /\ Hit(l[k].id)
        /\ \A k, m \in DOMAIN l :
             k < m => answers[l[k].id].created_at > answers[l[m].id].created_at
        /\ \A a \in OwnedBy(resp.pid) :
             Hit(a) =>
               \/ \E k \in DOMAIN l : l[k].id = a
               \/ /\ Len(l) = FallbackLimit
                  /\ \A k \in DOMAIN l : answers[a].created_at < answers[l[k].id].created_at


\* C24: under repeated reindex runs, with no other write, every answer on
\* which the embedding call succeeds gets its embedding in the end, however
\* many older answers fail each time.
C24_FailingRowsBlockNothing ==
  <>(\A a \in DOMAIN answers :
       answers[a].answer_text # Poison => a \in DOMAIN embeddings)


\* C25: under every interleaving with a deletion of the same answer, an
\* update is answered 200 only if its UPDATE replaced the text of a row.
C25_OkMeansUpdated ==
  (Done("put") /\ resp.status = 200) => resp.writes >= 1


\* C26: when a reindex run ends beside saves and updates whose embedding
\* calls all succeed, and nothing else is in flight, the embeddings it
\* wrote are those of their answers' current texts.
C26_ReindexWritesCurrentText ==
  (Done("reindex") /\ resp.status = 200 /\ InFlight = {}) =>
    \A a \in resp.okIds :
      a \in DOMAIN embeddings /\ embeddings[a].content = answers[a].answer_text

=============================================================================
